---------------------------- MODULE Spec2Model ----------------------------
(***************************************************************************)
(* A model of the AT command parser (ATCmdParser.c / ATCmdParser.h): the   *)
(* streaming matcher ATCmdParser_vrecv, the sender ATCmdParser_vsend, the  *)
(* idle poller ATCmdParser_process_oob, the raw read, the timeout setter   *)
(* and the argument splitter ATCmdParser_analyse_args.                     *)
(*                                                                         *)
(* A C string is a sequence of one-character strings.  The scratch buffer  *)
(* at->_buffer is a function on 0 .. AT_BUFFER_SIZE-1; a string stored in  *)
(* it ends at the first NUL.                                               *)
(***************************************************************************)
EXTENDS Integers, Sequences, FiniteSets, TLC

(***************************************************************************)
(* Characters                                                              *)
(***************************************************************************)
LF == "\n"
CR == "\r"
NUL == "nul"
BSL == "\\"

\* The read primitive's negative result.
TIMEOUT == "timeout"

IsSpace(c) == c \in {" ", "\t", LF, CR}

Digits == <<"0", "1", "2", "3", "4", "5", "6", "7", "8", "9">>

IsDigit(c) == \E d \in 1..10 : Digits[d] = c

DigitVal(c) == (CHOOSE d \in 1..10 : Digits[d] = c) - 1

(***************************************************************************)
(* The scratch buffer as memory                                            *)
(***************************************************************************)
\* Scaled down from the header's 2048, so that capacity is reached.
AT_BUFFER_SIZE == 16

BufIdx == 0..(AT_BUFFER_SIZE - 1)

\* A store of c at index k.  A store outside the array is undefined
\* behaviour: it lands in whatever memory follows the session object and
\* leaves the array as it is; the index is what the model keeps of it.
Poke(buf, k, c) == IF k \in BufIdx THEN [buf EXCEPT ![k] = c] ELSE buf

\* Stores of the characters of s at k, k+1, ...
RECURSIVE PokeSeq(_, _, _)
PokeSeq(buf, k, s) ==
    IF s = <<>> THEN buf ELSE PokeSeq(Poke(buf, k, Head(s)), k + 1, Tail(s))

\* The C string that starts at index k: the characters up to the first NUL.
\* The byte that follows the array is the one a store at AT_BUFFER_SIZE
\* has just set, which in every use below is a NUL.
RECURSIVE CStr(_, _)
CStr(buf, k) ==
    IF k \notin BufIdx \/ buf[k] = NUL THEN <<>>
    ELSE <<buf[k]>> \o CStr(buf, k + 1)

(***************************************************************************)
(* sscanf / vsscanf: the directives the patterns use                       *)
(***************************************************************************)
\* Index of the first character of in at or after ip that is not white space.
RECURSIVE SkipWs(_, _)
SkipWs(in, ip) ==
    IF ip <= Len(in) /\ IsSpace(in[ip]) THEN SkipWs(in, ip + 1) ELSE ip

RECURSIVE DigitsEnd(_, _)
DigitsEnd(in, ip) ==
    IF ip <= Len(in) /\ IsDigit(in[ip]) THEN DigitsEnd(in, ip + 1) ELSE ip

RECURSIVE NonWsEnd(_, _)
NonWsEnd(in, ip) ==
    IF ip <= Len(in) /\ ~IsSpace(in[ip]) THEN NonWsEnd(in, ip + 1) ELSE ip

\* Decimal value of the digit string s.
RECURSIVE Atoi(_)
Atoi(s) ==
    IF s = <<>> THEN 0
    ELSE 10 * Atoi(SubSeq(s, 1, Len(s) - 1)) + DigitVal(s[Len(s)])

\* Index of the ']' that closes the scanset whose first member is at fp.
RECURSIVE SetEnd(_, _)
SetEnd(fmt, fp) ==
    IF fp > Len(fmt) \/ fmt[fp] = "]" THEN fp ELSE SetEnd(fmt, fp + 1)

RECURSIVE SetRunEnd(_, _, _, _)
SetRunEnd(in, ip, members, negate) ==
    IF ip <= Len(in) /\ ((in[ip] \in members) # negate)
    THEN SetRunEnd(in, ip + 1, members, negate)
    ELSE ip

\* The values sscanf(in, fmt, ...) assigns, in argument order: a number for
\* %d and %n, a string for %s and %[.  fp and ip are the next format and
\* input positions; scanning stops at the first directive that fails.
RECURSIVE Scan(_, _, _, _, _)
Scan(fmt, in, fp, ip, vals) ==
    IF fp > Len(fmt) THEN vals
    ELSE IF IsSpace(fmt[fp]) THEN Scan(fmt, in, fp + 1, SkipWs(in, ip), vals)
    ELSE IF fmt[fp] # "%" THEN
        IF ip <= Len(in) /\ in[ip] = fmt[fp]
        THEN Scan(fmt, in, fp + 1, ip + 1, vals)
        ELSE vals
    ELSE
        LET sup == fp + 1 <= Len(fmt) /\ fmt[fp + 1] = "*"
            cp == IF sup THEN fp + 2 ELSE fp + 1
            conv == IF cp <= Len(fmt) THEN fmt[cp] ELSE NUL
            Put(v) == IF sup THEN vals ELSE Append(vals, v)
            ws == SkipWs(in, ip)
        IN  CASE conv = "n" -> Scan(fmt, in, cp + 1, ip, Put(ip - 1))
              [] conv = "%" ->
                    IF ws <= Len(in) /\ in[ws] = "%"
                    THEN Scan(fmt, in, cp + 1, ws + 1, vals)
                    ELSE vals
              [] conv = "d" ->
                    LET ds == IF ws <= Len(in) /\ in[ws] \in {"-", "+"}
                              THEN ws + 1 ELSE ws
                        de == DigitsEnd(in, ds)
                        mag == Atoi(SubSeq(in, ds, de - 1))
                    IN  IF de = ds THEN vals
                        ELSE Scan(fmt, in, cp + 1, de,
                                  Put(IF ds > ws /\ in[ws] = "-" THEN 0 - mag ELSE mag))
              [] conv = "s" ->
                    LET se == NonWsEnd(in, ws)
                    IN  IF se = ws THEN vals
                        ELSE Scan(fmt, in, cp + 1, se, Put(SubSeq(in, ws, se - 1)))
              [] conv = "[" ->
                    LET negate == cp + 1 <= Len(fmt) /\ fmt[cp + 1] = "^"
                        first == IF negate THEN cp + 2 ELSE cp + 1
                        close == SetEnd(fmt, first)
                        members == {fmt[k] : k \in first..(close - 1)}
                        re == SetRunEnd(in, ip, members, negate)
                    IN  IF re = ip \/ close > Len(fmt) THEN vals
                        ELSE Scan(fmt, in, close + 1, re, Put(SubSeq(in, ip, re - 1)))
              [] OTHER -> vals

sscanf(in, fmt) == Scan(fmt, in, 1, 1, <<>>)

\* int count = -1; sscanf(dp, at->_buffer, &count): the template holds only
\* suppressed conversions, so &count is the argument of its %n.
VerifyCount(in, fmt) ==
    LET vals == sscanf(in, fmt) IN IF vals = <<>> THEN -1 ELSE vals[1]

(***************************************************************************)
(* The pattern rewriter: the head of the per-line loop of ATCmdParser_vrecv*)
(***************************************************************************)
\* response[k] with the terminating NUL at and past the end (k is 0-based).
At(s, k) == IF k >= 0 /\ k < Len(s) THEN s[k + 1] ELSE NUL

\* The loop that copies one line of response into the buffer, a '%' that is
\* followed by neither '%' nor '*' becoming "%*".  Returns the template
\* written so far, the source index i and whole_line_wanted.
RECURSIVE RewriteLoop(_, _, _)
RewriteLoop(response, i, out) ==
    IF At(response, i) = NUL THEN [out |-> out, i |-> i, whole |-> FALSE]
    ELSE IF At(response, i) = "%" /\ At(response, i + 1) # "%"
                                   /\ At(response, i + 1) # "*"
         THEN RewriteLoop(response, i + 1, out \o <<"%", "*">>)
    ELSE IF At(response, i) = LF
            /\ ~(i + 1 >= 3 /\ At(response, i - 2) = "[" /\ At(response, i - 1) = "^")
         THEN [out |-> Append(out, LF), i |-> i + 1, whole |-> TRUE]
    ELSE RewriteLoop(response, i + 1, Append(out, At(response, i)))

\* The staged verification template with its "%n" and NUL: offset is its
\* length, i the length of the source line.
Rewrite(response) ==
    LET r == RewriteLoop(response, 0, <<>>)
    IN  [tmpl |-> r.out \o <<"%", "n", NUL>>,
         i |-> r.i,
         offset |-> Len(r.out) + 3,
         whole_line_wanted |-> r.whole]

(***************************************************************************)
(* Bounds and the inputs the environment draws from                        *)
(***************************************************************************)
\* Bytes the transport supplies of its own accord.
MaxBytes == 5

\* Bytes it supplies of its own accord while a send drains the line.
MaxDrainBytes == 2

\* Calls of receive, send, poll and raw read in one behaviour.
MaxCalls == 2

\* Entries the OOB registry grows to.
MaxOobs == 1

Alphabet == {"A", "B", ":", LF}

Patterns ==
    { <<"A", "B">>,
      <<"A", LF, "B", LF>>,
      <<"A", ":", "%", "s", LF>>,
      <<"C", "M", "D", "=", "%", "d">>,
      <<"%", "[", "^", LF, "]", LF>> }

Commands == { <<"C", "M", "D", "=", "%", "d">> }

SendArgs == {7, 12, 305}

OobPrefixes == { <<":">>, <<"A", "B">> }

\* The timeout a session is constructed with, and those set later.
InitTimeouts == {5}
TimeoutValues == {9}

ReadSizes == {1, 2}

\* (output delimiter, input delimiter) pairs a session is constructed with.
Delimiters == { <<(<<CR, LF>>), (<<CR, LF>>)>> }

(***************************************************************************)
(* State                                                                   *)
(***************************************************************************)
VARIABLES
    \* the session object (ATParser)
    _buffer, _oobs, unprocessed_data, character_timeout, _output_delimiter,
    _input_delimiter,
    \* the transport: bytes a peer has scripted, bytes supplied freely, and
    \* the bytes written by put
    wire, nbytes, tx,
    \* the caller: position, running operation, its return value
    pc, op, result, ncalls, in_send,
    \* locals of ATCmdParser_vrecv
    pattern, response, i, offset, whole_line_wanted, j, dummy, dummy_pos,
    _in_prev, _aborted, captured,
    \* locals of ATCmdParser_process_oob, ATCmdParser_vsend, ATCmdParser_read
    pi, command, send_arg, si, size, ri,
    \* what the current call has done so far (observation only)
    got, reads, get_timeout, configured, timed_out, oob_calls, sink_calls,
    verifies, lines_matched, max_write, min_read, abort_req, put_failed,
    restart_line, readable,
    \* ATCmdParser_analyse_args: its arguments and locals
    analyse,
    \* the pattern rewriter of ATCmdParser_vrecv run on one pattern
    staged

sessionVars == <<_buffer, _oobs, unprocessed_data, character_timeout,
                 _output_delimiter, _input_delimiter>>
envVars == <<wire, nbytes, tx>>
callVars == <<pc, op, result, ncalls, in_send>>
recvVars == <<pattern, response, i, offset, whole_line_wanted, j, dummy,
              dummy_pos, _in_prev, _aborted, captured>>
otherVars == <<pi, command, send_arg, si, size, ri>>
histVars == <<got, reads, get_timeout, configured, timed_out, oob_calls,
              sink_calls, verifies, lines_matched, max_write, min_read,
              abort_req, put_failed, restart_line, readable>>
vars == <<sessionVars, envVars, callVars, recvVars, otherVars, histVars, analyse,
          staged>>

(***************************************************************************)
(* The transport (serial_ops)                                              *)
(***************************************************************************)
\* What at->ops->get may return: the next byte the peer has scripted, else
\* any byte, or a timeout.  The peer talks of its own accord during the
\* first call of a behaviour; later calls find its scripted bytes only.
GetOutcomes ==
    IF wire # <<>> THEN {Head(wire), TIMEOUT}
    ELSE (IF ncalls = 1 /\ nbytes < (IF in_send THEN MaxDrainBytes ELSE MaxBytes)
          THEN Alphabet ELSE {}) \cup {TIMEOUT}

\* at->ops->get(at->character_timeout) returning c.
Get(c) ==
    /\ c \in GetOutcomes
    /\ get_timeout' = character_timeout
    /\ reads' = reads + 1
    /\ IF c = TIMEOUT
       THEN /\ timed_out' = TRUE
            /\ UNCHANGED <<wire, nbytes, got>>
       ELSE /\ timed_out' = timed_out
            /\ got' = Append(got, c)
            /\ IF wire # <<>>
               THEN wire' = Tail(wire) /\ nbytes' = nbytes
               ELSE wire' = wire /\ nbytes' = nbytes + 1

\* The caller may call the session: no call is running, and the calls so
\* far found the line quiet.
Idle == pc = "done" /\ ncalls < MaxCalls /\ nbytes = 0

\* A call starts: what it has done so far is nothing.
StartCall(name) ==
    /\ Idle
    /\ ncalls' = ncalls + 1
    /\ op' = name
    /\ got' = <<>>
    /\ reads' = 0
    /\ timed_out' = FALSE
    /\ oob_calls' = 0
    /\ sink_calls' = 0
    /\ verifies' = 0
    /\ lines_matched' = 0
    /\ max_write' = -1
    /\ min_read' = 0
    /\ abort_req' = FALSE
    /\ put_failed' = FALSE
    /\ restart_line' = -1

\* return v;
Return(v) == pc' = "done" /\ result' = v

(***************************************************************************)
(* ATCmdParser_init                                                        *)
(***************************************************************************)
\* calloc zeroes the session; the constructor stores the delimiters and the
\* transport and hands timeout to ops->init.
SessionInit ==
    /\ _buffer = [k \in BufIdx |-> NUL]
    /\ _oobs = <<>>
    /\ unprocessed_data = FALSE
    /\ character_timeout = 0
    /\ \E d \in Delimiters : _output_delimiter = d[1] /\ _input_delimiter = d[2]
    /\ configured \in InitTimeouts
    /\ wire = <<>> /\ nbytes = 0 /\ tx = <<>>
    /\ pc = "done" /\ op = "init" /\ result = TRUE /\ ncalls = 0 /\ in_send = FALSE
    /\ pattern = <<>> /\ response = <<>> /\ i = 0 /\ offset = 0
    /\ whole_line_wanted = FALSE /\ j = 0 /\ dummy = 0 /\ dummy_pos = <<>>
    /\ _in_prev = NUL /\ _aborted = FALSE /\ captured = <<>>
    /\ pi = 0 /\ command = <<>> /\ send_arg = 0 /\ si = 0 /\ size = 0 /\ ri = 0
    /\ got = <<>> /\ reads = 0 /\ get_timeout = -1 /\ timed_out = FALSE
    /\ oob_calls = 0 /\ sink_calls = 0 /\ verifies = 0 /\ lines_matched = 0
    /\ max_write = -1 /\ min_read = 0 /\ abort_req = FALSE /\ put_failed = FALSE
    /\ restart_line = -1
    /\ readable = FALSE

(***************************************************************************)
(* memcpy                                                                  *)
(***************************************************************************)
\* memcpy on regions that overlap is undefined: a build copies the bytes
\* front to back or back to front, and the two differ when they overlap.
MemcpyOrders == {"ascending", "descending"}

RECURSIVE CopyUp(_, _, _, _, _)
CopyUp(mem, dst, src, n, k) ==
    IF k >= n THEN mem
    ELSE CopyUp([mem EXCEPT ![dst + k] = mem[src + k]], dst, src, n, k + 1)

RECURSIVE CopyDown(_, _, _, _)
CopyDown(mem, dst, src, k) ==
    IF k < 0 THEN mem
    ELSE CopyDown([mem EXCEPT ![dst + k] = mem[src + k]], dst, src, k - 1)

\* memcpy(mem + dst, mem + src, n) within one array.
memcpy(mem, dst, src, n, order) ==
    IF order = "ascending" THEN CopyUp(mem, dst, src, n, 0)
    ELSE CopyDown(mem, dst, src, n - 1)

Max(a, b) == IF a >= b THEN a ELSE b
Min(a, b) == IF a <= b THEN a ELSE b

(***************************************************************************)
(* ATCmdParser_vrecv                                                       *)
(***************************************************************************)
OobHit_Never(buf, at, n) == 0

\* The first registered entry whose prefix is the n bytes at _buffer + at.
\* The list is walked from its head; 0 when no entry matches.
OobHit(buf, at, n) ==
    LET hits == {k \in 1..Len(_oobs) :
                    /\ Len(_oobs[k].prefix) = n
                    /\ \A m \in 1..n : at + m - 1 \in BufIdx
                                       /\ buf[at + m - 1] = _oobs[k].prefix[m]}
    IN  IF hits = {} THEN 0 ELSE CHOOSE k \in hits : \A h \in hits : k <= h

\* "Remove dummy chars": for (k = 0; k < dummy; k++, j--) each recorded
\* position, shifted by the fillers already removed, is closed up.
RECURSIVE RemoveDummy(_, _, _, _, _, _)
RemoveDummy(buf, off, dpos, k, jj, order) ==
    IF k >= Len(dpos) THEN buf
    ELSE LET pos == dpos[k + 1] - k
         IN  RemoveDummy(memcpy(buf, off + pos, off + pos + 1, jj - pos - 1, order),
                         off, dpos, k + 1, jj - 1, order)

\* Variants of the decision points below, each a slip the code could have
\* made; a property that rests on a decision point fails under its variant.
RestartResponse_FromFirstLine == pattern

RecvOnTimeout_Retry == pc' = "read" /\ result' = result

Attempt_AtTerminator(c) == c = LF

ClearDue_CapacityOnly(c, jj) == jj + 1 >= AT_BUFFER_SIZE - offset

ClearDue_NewlineOnly(c, jj) == c = LF

Advance_Stay(resp, n) == resp

FillerDue_AfterColon(c, prev) == prev = ":"

\* goto restart: the jump lands before while (response[0]) and assigns
\* nothing to response, which response += i has moved past the lines
\* matched so far.
RestartResponse == response

\* if (c < 0) return false;
RecvOnTimeout == Return(FALSE)

\* Whether the pass attempts verification: not before the line terminator
\* when the pattern line ends with one.
Attempt(c) == ~(whole_line_wanted /\ c # LF)

\* if ((char)c == '\n' || j + 1 >= AT_BUFFER_SIZE - offset): clear.
ClearDue(c, jj) == c = LF \/ jj + 1 >= AT_BUFFER_SIZE - offset

\* if ((char)c == '\n' && _in_prev == ':'): a filler goes in before c.
FillerDue(c, prev) == c = LF /\ prev = ":"

\* response += i;
Advance(resp, n) == SubSeq(resp, n + 1, Len(resp))

\* bool ATCmdParser_vrecv(at, response, args): entry, up to the restart label.
RecvCall(p) ==
    /\ StartCall("recv")
    /\ pattern' = p
    /\ response' = p
    /\ _in_prev' = NUL
    /\ _aborted' = FALSE
    /\ captured' = <<>>
    /\ pc' = "line"
    /\ UNCHANGED <<sessionVars, envVars, result, in_send, i, offset,
                   whole_line_wanted, j, dummy, dummy_pos, otherVars,
                   get_timeout, configured, readable>>

\* while (response[0]) { stage the line's template; j = 0, dummy = 0; ... }
\* and, past the loop, return true.
RecvLine ==
    /\ pc = "line"
    /\ IF response = <<>>
       THEN /\ Return(TRUE)
            /\ UNCHANGED <<_buffer, i, offset, whole_line_wanted, j, dummy,
                           dummy_pos, max_write>>
       ELSE LET r == Rewrite(response)
            IN  /\ _buffer' = PokeSeq(_buffer, 0, r.tmpl)
                /\ i' = r.i
                /\ offset' = r.offset
                /\ whole_line_wanted' = r.whole_line_wanted
                /\ j' = 0
                /\ dummy' = 0
                /\ dummy_pos' = <<>>
                /\ max_write' = Max(max_write, r.offset - 1)
                /\ pc' = "read"
                /\ result' = result
    /\ UNCHANGED <<_oobs, unprocessed_data, character_timeout, _output_delimiter,
                   _input_delimiter,
                   envVars, op, ncalls, in_send, pattern, response, _in_prev,
                   _aborted, captured, otherVars, got, reads, get_timeout,
                   configured, timed_out, oob_calls, sink_calls, verifies,
                   lines_matched, min_read, abort_req, put_failed, restart_line, readable>>

\* One pass of the while (true) loop: read a byte, inject a filler after
\* ':' before '\n', append, look for an OOB prefix, verify, then match or
\* clear.
RecvRead ==
    /\ pc = "read"
    /\ \E c \in GetOutcomes, order \in MemcpyOrders :
        /\ Get(c)
        /\ IF c = TIMEOUT
           THEN /\ RecvOnTimeout
                /\ UNCHANGED <<_buffer, response, j, dummy, dummy_pos, _in_prev,
                               captured, oob_calls, verifies, lines_matched,
                               max_write>>
           ELSE LET fill == FillerDue(c, _in_prev)
                    j1 == IF fill THEN j + 1 ELSE j
                    b1 == IF fill THEN Poke(_buffer, offset + j, "x") ELSE _buffer
                    dpos1 == IF fill THEN Append(dummy_pos, j) ELSE dummy_pos
                    dummy1 == IF fill THEN dummy + 1 ELSE dummy
                    j2 == j1 + 1
                    b3 == Poke(Poke(b1, offset + j1, c), offset + j2, NUL)
                    hit == OobHit(b3, offset, j2)
                    attempt == Attempt(c)
                    count == IF attempt
                             THEN VerifyCount(CStr(b3, offset), CStr(b3, 0))
                             ELSE -1
                    b4 == RemoveDummy(b3, offset, dpos1, 0, j2, order)
                    b5 == PokeSeq(b4, 0, Append(SubSeq(response, 1, i), NUL))
                IN  /\ _in_prev' = c
                    /\ max_write' = Max(max_write, offset + j2)
                    /\ IF hit # 0
                       THEN /\ _buffer' = b3
                            /\ j' = j2 /\ dummy' = dummy1 /\ dummy_pos' = dpos1
                            /\ oob_calls' = oob_calls + 1
                            /\ pc' = "cb"
                            /\ UNCHANGED <<result, response, captured, verifies,
                                           lines_matched>>
                       ELSE /\ verifies' = IF attempt THEN verifies + 1 ELSE verifies
                            /\ IF count = j2
                               THEN /\ _buffer' = b5
                                    /\ j' = j2 - dummy1
                                    /\ dummy' = dummy1 /\ dummy_pos' = dpos1
                                    /\ captured' = captured \o
                                           sscanf(CStr(b5, offset), CStr(b5, 0))
                                    /\ response' = Advance(response, i)
                                    /\ lines_matched' = lines_matched + 1
                                    /\ pc' = "line"
                               ELSE /\ _buffer' = b3
                                    /\ IF ClearDue(c, j2)
                                       THEN j' = 0 /\ dummy' = 0 /\ dummy_pos' = <<>>
                                       ELSE j' = j2 /\ dummy' = dummy1 /\ dummy_pos' = dpos1
                                    /\ pc' = "read"
                                    /\ UNCHANGED <<response, captured, lines_matched>>
                            /\ UNCHANGED <<result, oob_calls>>
    /\ UNCHANGED <<_oobs, unprocessed_data, character_timeout, _output_delimiter,
                   _input_delimiter,
                   tx, op, ncalls, in_send, pattern, i, offset, whole_line_wanted,
                   _aborted, otherVars, configured, sink_calls, min_read,
                   abort_req, put_failed, restart_line, readable>>

\* oob->cb(at) runs and returns into vrecv: if (_aborted) return false;
\* else goto restart, where _aborted = false.  The handler is the caller's
\* code: it may want the receive aborted, and it may have used the session
\* and left its own bytes in the scratch buffer.  _aborted is a local of
\* vrecv that nothing the handler can reach writes.
RecvHandler ==
    /\ pc = "cb"
    /\ op = "recv"
    /\ \E wants \in BOOLEAN, clobber \in BOOLEAN :
        /\ abort_req' = wants
        /\ _buffer' = IF clobber THEN [k \in BufIdx |-> "?"] ELSE _buffer
    /\ IF _aborted
       THEN Return(FALSE) /\ UNCHANGED <<restart_line, _aborted, response>>
       ELSE /\ pc' = "line"
            /\ response' = RestartResponse
            /\ _aborted' = FALSE
            /\ restart_line' = lines_matched
            /\ result' = result
    /\ UNCHANGED <<_oobs, unprocessed_data, character_timeout, _output_delimiter,
                   _input_delimiter,
                   envVars, op, ncalls, in_send, pattern, i, offset,
                   whole_line_wanted, j, dummy, dummy_pos, _in_prev, captured,
                   otherVars, got, reads, get_timeout, configured, timed_out,
                   oob_calls, sink_calls, verifies, lines_matched, max_write,
                   min_read, put_failed, readable>>

(***************************************************************************)
(* ATCmdParser_process_oob                                                 *)
(***************************************************************************)
\* process_oob returns v: to its caller, or into the drain loop of vsend,
\* which calls it again after true and goes on to format after false.
PollReturn(v) ==
    IF in_send
    THEN pc' = (IF v THEN "drain" ELSE "format") /\ result' = result
    ELSE Return(v)

PollEnter_Unconditional(avail) ==
    readable' = avail /\ pc' = "poll" /\ pi' = 0 /\ result' = result

\* if (!at->ops->readable()) return false; int i = 0;
\* (readable: what the transport answered)
PollEnter(avail) ==
    /\ readable' = avail
    /\ IF ~avail
       THEN PollReturn(FALSE) /\ pi' = pi
       ELSE pc' = "poll" /\ pi' = 0 /\ result' = result

ProcessOobCall ==
    /\ StartCall("process_oob")
    /\ \E avail \in BOOLEAN : PollEnter(avail)
    /\ UNCHANGED <<sessionVars, envVars, in_send, recvVars, command,
                   send_arg, si, size, ri, get_timeout, configured>>

\* One pass of the while (true) loop of process_oob.  The delimiter check
\* reads the string at _buffer + i - _input_delim_size; a start before the
\* array is a read of the session's other fields, whose outcome a build
\* decides.
PollRead ==
    /\ pc = "poll"
    /\ \E c \in GetOutcomes, before \in BOOLEAN :
        /\ Get(c)
        /\ IF c = TIMEOUT
           THEN /\ PollReturn(FALSE)
                /\ UNCHANGED <<_buffer, pi, oob_calls, sink_calls, max_write, min_read>>
           ELSE LET b == Poke(Poke(_buffer, pi, c), pi + 1, NUL)
                    i1 == pi + 1
                    hit == OobHit(b, 0, i1)
                    start == i1 - Len(_input_delimiter)
                    full == i1 + 1 >= AT_BUFFER_SIZE
                    same == IF start < 0 THEN before
                            ELSE CStr(b, start) = _input_delimiter
                IN  /\ _buffer' = b
                    /\ max_write' = Max(max_write, pi + 1)
                    /\ IF hit # 0
                       THEN /\ oob_calls' = oob_calls + 1
                            /\ pi' = i1
                            /\ pc' = "cb"
                            /\ UNCHANGED <<result, sink_calls, min_read>>
                       ELSE /\ min_read' = IF full THEN min_read ELSE Min(min_read, start)
                            /\ IF full \/ same
                               THEN /\ sink_calls' = IF unprocessed_data
                                                     THEN sink_calls + 1 ELSE sink_calls
                                    /\ pi' = 0
                               ELSE /\ sink_calls' = sink_calls
                                    /\ pi' = i1
                            /\ pc' = "poll"
                            /\ UNCHANGED <<result, oob_calls>>
    /\ UNCHANGED <<_oobs, unprocessed_data, character_timeout, _output_delimiter,
                   _input_delimiter, tx, op, ncalls, in_send, recvVars, command,
                   send_arg, si, size, ri, configured, verifies, lines_matched,
                   abort_req, put_failed, restart_line, readable>>

\* oob->cb(at) runs and returns into process_oob: return true.
PollHandler ==
    /\ pc = "cb"
    /\ op # "recv"
    /\ \E wants \in BOOLEAN, clobber \in BOOLEAN :
        /\ abort_req' = wants
        /\ _buffer' = IF clobber THEN [k \in BufIdx |-> "?"] ELSE _buffer
    /\ PollReturn(TRUE)
    /\ UNCHANGED <<_oobs, unprocessed_data, character_timeout, _output_delimiter,
                   _input_delimiter, envVars, op, ncalls, in_send, recvVars,
                   otherVars, got, reads, get_timeout, configured, timed_out,
                   oob_calls, sink_calls, verifies, lines_matched, max_write,
                   min_read, put_failed, restart_line, readable>>

(***************************************************************************)
(* ATCmdParser_vsend                                                       *)
(***************************************************************************)
\* Decimal text of n >= 0, as %d prints it.
RECURSIVE Itoa(_)
Itoa(n) ==
    IF n < 10 THEN <<Digits[n + 1]>>
    ELSE Append(Itoa(n \div 10), Digits[(n % 10) + 1])

\* vsprintf(at->_buffer, command, args) for one int argument: the text.
RECURSIVE Format(_, _)
Format(cmd, n) ==
    IF cmd = <<>> THEN <<>>
    ELSE IF Len(cmd) >= 2 /\ cmd[1] = "%" /\ cmd[2] = "d"
         THEN Itoa(n) \o Format(SubSeq(cmd, 3, Len(cmd)), n)
    ELSE IF Len(cmd) >= 2 /\ cmd[1] = "%" /\ cmd[2] = "%"
         THEN <<"%">> \o Format(SubSeq(cmd, 3, Len(cmd)), n)
    ELSE <<cmd[1]>> \o Format(Tail(cmd), n)

SendCall(cmd, n) ==
    /\ StartCall("send")
    /\ command' = cmd
    /\ send_arg' = n
    /\ in_send' = TRUE
    /\ tx' = <<>>
    /\ pc' = "drain"
    /\ UNCHANGED <<sessionVars, wire, nbytes, result, recvVars, pi, si, size,
                   ri, get_timeout, configured, readable>>

\* while (ATCmdParser_process_oob(at)) ;  -- the call
SendDrain ==
    /\ pc = "drain"
    /\ \E avail \in BOOLEAN : PollEnter(avail)
    /\ UNCHANGED <<sessionVars, envVars, op, ncalls, in_send, recvVars, command,
                   send_arg, si, size, ri, got, reads, get_timeout, configured,
                   timed_out, oob_calls, sink_calls, verifies, lines_matched,
                   max_write, min_read, abort_req, put_failed, restart_line>>

\* if (vsprintf(at->_buffer, command, args) < 0) return false;
SendFormat ==
    /\ pc = "format"
    /\ _buffer' = PokeSeq(_buffer, 0, Append(Format(command, send_arg), NUL))
    /\ si' = 0
    /\ pc' = "put"
    /\ UNCHANGED <<_oobs, unprocessed_data, character_timeout, _output_delimiter,
                   _input_delimiter, envVars, op, result, ncalls, in_send,
                   recvVars, pi, command, send_arg, size, ri, histVars>>

SendOnPutFailure_Continue(next) ==
    /\ pc' = next
    /\ si' = si + 1
    /\ put_failed' = TRUE
    /\ UNCHANGED <<tx, result, in_send>>

\* if (at->ops->put(...) < 0) return false;  (next: where the loop would
\* have gone on)
SendOnPutFailure(next) ==
    /\ Return(FALSE)
    /\ in_send' = FALSE
    /\ put_failed' = TRUE
    /\ UNCHANGED <<tx, si>>

\* at->ops->put(b) from a loop of vsend whose next position is next.
SendPutByte(b, next) ==
    \E ok \in BOOLEAN :
        IF ok
        THEN /\ tx' = Append(tx, b)
             /\ si' = si + 1
             /\ pc' = next
             /\ UNCHANGED <<result, in_send, put_failed>>
        ELSE SendOnPutFailure(next)

\* for (int i = 0; at->_buffer[i]; i++) put(at->_buffer[i])
SendPut ==
    /\ pc = "put"
    /\ IF si \notin BufIdx \/ _buffer[si] = NUL
       THEN /\ pc' = "put_delim"
            /\ si' = 0
            /\ UNCHANGED <<tx, result, in_send, put_failed>>
       ELSE SendPutByte(_buffer[si], "put")
    /\ UNCHANGED <<sessionVars, wire, nbytes, op, ncalls, recvVars, pi, command,
                   send_arg, size, ri, got, reads, get_timeout, configured,
                   timed_out, oob_calls, sink_calls, verifies, lines_matched,
                   max_write, min_read, abort_req, restart_line, readable>>

\* for (size_t i = 0; at->_output_delimiter[i]; i++) put(...); return true;
SendPutDelim ==
    /\ pc = "put_delim"
    /\ IF si >= Len(_output_delimiter)
       THEN /\ Return(TRUE)
            /\ in_send' = FALSE
            /\ UNCHANGED <<tx, si, put_failed>>
       ELSE SendPutByte(_output_delimiter[si + 1], "put_delim")
    /\ UNCHANGED <<sessionVars, wire, nbytes, op, ncalls, recvVars, pi, command,
                   send_arg, size, ri, got, reads, get_timeout, configured,
                   timed_out, oob_calls, sink_calls, verifies, lines_matched,
                   max_write, min_read, abort_req, restart_line, readable>>

(***************************************************************************)
(* ATCmdParser_read, ATCmdParser_set_timeout, ATCmdParser_add_oob,         *)
(* ATCmdParser_set_unprocessed_cb                                          *)
(***************************************************************************)
ReadCall(n) ==
    /\ StartCall("read")
    /\ size' = n
    /\ ri' = 0
    /\ pc' = "raw"
    /\ UNCHANGED <<sessionVars, envVars, result, in_send, recvVars, pi,
                   command, send_arg, si, get_timeout, configured, readable>>

\* for (; i < size; i++) { c = get(timeout); if (c < 0) return -1; data[i] = c; }
\* return i;
ReadGet ==
    /\ pc = "raw"
    /\ IF ri >= size
       THEN /\ Return(ri)
            /\ UNCHANGED <<wire, nbytes, ri, got, reads, get_timeout, timed_out>>
       ELSE \E c \in GetOutcomes :
                /\ Get(c)
                /\ IF c = TIMEOUT
                   THEN Return(-1) /\ ri' = ri
                   ELSE ri' = ri + 1 /\ UNCHANGED <<pc, result>>
    /\ UNCHANGED <<sessionVars, tx, op, ncalls, in_send, recvVars, pi, command,
                   send_arg, si, size, configured, oob_calls, sink_calls,
                   verifies, lines_matched, max_write, min_read, abort_req,
                   put_failed, restart_line, readable>>

\* at->character_timeout = timeout;  (configured: the value the caller last
\* asked for, at construction or here)
SetTimeout(t) ==
    /\ Idle
    /\ character_timeout # t
    /\ character_timeout' = t
    /\ configured' = t
    /\ UNCHANGED <<_buffer, _oobs, unprocessed_data, _output_delimiter,
                   _input_delimiter, envVars, callVars, recvVars, otherVars,
                   got, reads, get_timeout, timed_out, oob_calls, sink_calls,
                   verifies, lines_matched, max_write, min_read, abort_req,
                   put_failed, restart_line, readable>>

\* A new entry at the head of the list.
AddOob(prefix) ==
    /\ Idle
    /\ Len(_oobs) < MaxOobs
    /\ _oobs' = <<[len |-> Len(prefix), prefix |-> prefix]>> \o _oobs
    /\ UNCHANGED <<_buffer, unprocessed_data, character_timeout, _output_delimiter,
                   _input_delimiter, envVars, callVars, recvVars, otherVars,
                   histVars>>

SetUnprocessedCb ==
    /\ Idle
    /\ ~unprocessed_data
    /\ unprocessed_data' = TRUE
    /\ UNCHANGED <<_buffer, _oobs, character_timeout, _output_delimiter,
                   _input_delimiter, envVars, callVars, recvVars, otherVars,
                   histVars>>

(***************************************************************************)
(* The peer                                                                *)
(***************************************************************************)
\* The command a completed send wrote, without its delimiter.
SentCommand == SubSeq(tx, 1, Len(tx) - Len(_output_delimiter))

\* The peer echoes the command it was sent, ended by CR LF.
PeerEcho ==
    /\ pc = "done"
    /\ op = "send"
    /\ result = TRUE
    /\ wire = <<>>
    /\ wire' = SentCommand \o <<CR, LF>>
    /\ UNCHANGED <<sessionVars, nbytes, tx, callVars, recvVars, otherVars, histVars>>

(***************************************************************************)
(* The session: every operation, called one at a time                      *)
(***************************************************************************)
SessionNext ==
    \/ \E p \in Patterns : RecvCall(p)
    \/ RecvLine
    \/ RecvRead
    \/ RecvHandler
    \/ ProcessOobCall
    \/ PollRead
    \/ PollHandler
    \/ \E cmd \in Commands, n \in SendArgs : SendCall(cmd, n)
    \/ SendDrain
    \/ SendFormat
    \/ SendPut
    \/ SendPutDelim
    \/ \E n \in ReadSizes : ReadCall(n)
    \/ ReadGet
    \/ \E t \in TimeoutValues : SetTimeout(t)
    \/ \E prefix \in OobPrefixes : AddOob(prefix)
    \/ SetUnprocessedCb
    \/ PeerEcho

\* No call of the argument splitter is in progress.
NoAnalyse == [pc |-> "none"]

\* The pattern rewriter is not being run on its own.
NoStaging == [pc |-> "none"]

Init == SessionInit /\ analyse = NoAnalyse /\ staged = NoStaging

Next == SessionNext /\ UNCHANGED <<analyse, staged>>

Spec == Init /\ [][Next]_vars

\* Receive alone, with the registry its OOB scan walks.  A call that is
\* running takes its next step: the code is sequential and the transport's
\* get returns (a byte or a timeout).
NextRecv ==
    /\ \/ \E p \in Patterns : RecvCall(p)
       \/ RecvLine
       \/ RecvRead
       \/ RecvHandler
       \/ \E prefix \in OobPrefixes : AddOob(prefix)
    /\ UNCHANGED <<analyse, staged>>

SpecRecv == Init /\ [][NextRecv]_vars /\ WF_vars(NextRecv)

(***************************************************************************)
(* ATCmdParser_analyse_args                                                *)
(***************************************************************************)
\* Longest argument string drawn, and the letters it is drawn from.
MaxArgLen == 4

ArgAlphabet == {"1", ",", BSL}

\* The example of the header.
DocExample == <<"1", "1", "1", ",", "2", "2", "2", ",", "3", "3", "3", BSL, ",",
                "3", "3", ",", "4", "4", "4">>

RECURSIVE SeqsUpTo(_, _)
SeqsUpTo(S, n) ==
    IF n = 0 THEN {<<>>}
    ELSE LET shorter == SeqsUpTo(S, n - 1)
         IN  shorter \cup {Append(t, c) : t \in shorter, c \in S}

ArgInputs == SeqsUpTo(ArgAlphabet, MaxArgLen) \cup {DocExample}

ListSizes == {1, 2, 4}

\* The string args as memory: its characters at 0 .. len-1, NUL at len.
ArgMem(str) == [k \in 0..Len(str) |-> IF k < Len(str) THEN str[k + 1] ELSE NUL]

\* The C string at offset k of the memory mem, whose last index is last.
RECURSIVE MemStr(_, _, _)
MemStr(mem, k, last) ==
    IF k > last \/ mem[k] = NUL THEN <<>>
    ELSE <<mem[k]>> \o MemStr(mem, k + 1, last)

\* Entry: _in_prev = 0, arg_num = 1, len = strlen(args), arg_list[0] = args.
\* arg_list holds offsets into args, slot 0 first.
AnalyseEntry(str, slots) ==
    [pc |-> "loop", input |-> str, list_size |-> slots, args |-> ArgMem(str),
     len |-> Len(str), arg_list |-> <<0>>, arg_num |-> 1, i |-> 0, in_prev |-> NUL]

\* if (_in_prev == '\\') { args[i - i] = ','; memcpy(&args[i], &args[i + 1],
\* len - (i + 1)); }
Unescape(mem, k, len, order) ==
    memcpy([mem EXCEPT ![k - k] = ","], k, k + 1, len - (k + 1), order)

\* One pass of for (i = 0; i <= len; i++), and return arg_num past it.
AnalyseStep ==
    /\ analyse.pc = "loop"
    /\ \E order \in MemcpyOrders :
        LET a == analyse
            k == a.i
        IN  IF k > a.len
            THEN analyse' = [a EXCEPT !.pc = "done"]
            ELSE IF a.args[k] = ","
            THEN IF a.in_prev = BSL
                 THEN LET m == Unescape(a.args, k, a.len, order)
                      IN  analyse' = [a EXCEPT !.args = m, !.in_prev = m[k], !.i = k + 1]
                 ELSE LET m == [a.args EXCEPT ![k] = NUL]
                          n == a.arg_num + 1
                      IN  analyse' = [a EXCEPT !.args = m,
                                               !.arg_list = Append(a.arg_list, k + 1),
                                               !.arg_num = n,
                                               !.in_prev = IF n > a.list_size
                                                           THEN a.in_prev ELSE NUL,
                                               !.i = IF n > a.list_size THEN k ELSE k + 1,
                                               !.pc = IF n > a.list_size
                                                      THEN "done" ELSE "loop"]
            ELSE analyse' = [a EXCEPT !.in_prev = a.args[k], !.i = k + 1]
    /\ UNCHANGED <<sessionVars, envVars, callVars, recvVars, otherVars, histVars,
                   staged>>

\* The strings the caller finds in arg_list[0 .. arg_num-1].
AnalyseResult ==
    [k \in 1..Len(analyse.arg_list) |->
        MemStr(analyse.args, analyse.arg_list[k], analyse.len)]

InitArgs ==
    /\ SessionInit
    /\ staged = NoStaging
    /\ \E str \in ArgInputs, slots \in ListSizes : analyse = AnalyseEntry(str, slots)

NextArgs == AnalyseStep

SpecArgs == InitArgs /\ [][NextArgs]_vars

(***************************************************************************)
(* The pattern rewriter of ATCmdParser_vrecv on every short pattern        *)
(***************************************************************************)
MaxPatternLen == 4

RewriteAlphabet == {"%", "*", "d", LF}

RewriteInputs == SeqsUpTo(RewriteAlphabet, MaxPatternLen) \ {<<>>}

\* receive is entered with the pattern: while (response[0]) is about to
\* stage its first line.
StageEntry(p) == [pc |-> "line", response |-> p, i |-> 0, offset |-> 0,
                  whole_line_wanted |-> FALSE]

\* The head of the loop body: the line's template is written to the front
\* of the buffer, with i, offset and whole_line_wanted set.
StageLine ==
    /\ staged.pc = "line"
    /\ LET r == Rewrite(staged.response)
       IN  /\ _buffer' = PokeSeq(_buffer, 0, r.tmpl)
           /\ staged' = [staged EXCEPT !.pc = "staged", !.i = r.i,
                                       !.offset = r.offset,
                                       !.whole_line_wanted = r.whole_line_wanted]
    /\ UNCHANGED <<_oobs, unprocessed_data, character_timeout, _output_delimiter,
                   _input_delimiter, envVars, callVars, recvVars, otherVars,
                   histVars, analyse>>

InitRewrite ==
    /\ SessionInit
    /\ analyse = NoAnalyse
    /\ \E p \in RewriteInputs : staged = StageEntry(p)

NextRewrite == StageLine

SpecRewrite == InitRewrite /\ [][NextRewrite]_vars

(***************************************************************************)
(* Properties                                                              *)
(***************************************************************************)
IsPrefix(a, b) == Len(a) <= Len(b) /\ SubSeq(b, 1, Len(a)) = a

\* Whether position k of pattern p ends a line: a '\n' that is not the
\* '\n' of a [^\n scanset.
EndsLine(p, k) == p[k] = LF /\ ~(k >= 3 /\ p[k - 2] = "[" /\ p[k - 1] = "^")

\* Length of the first line of pattern p, its '\n' included.
FirstLineLen(p) ==
    IF \E k \in 1..Len(p) : EndsLine(p, k)
    THEN CHOOSE k \in 1..Len(p) :
            EndsLine(p, k) /\ \A m \in 1..(k - 1) : ~EndsLine(p, m)
    ELSE Len(p)

\* Pattern p without its first n lines.
RECURSIVE DropLines(_, _)
DropLines(p, n) ==
    IF n = 0 \/ p = <<>> THEN p
    ELSE DropLines(SubSeq(p, FirstLineLen(p) + 1, Len(p)), n - 1)

TwoLines == <<"A", LF, "B", LF>>

C2_StoresBelowCapacity == op = "recv" => max_write < AT_BUFFER_SIZE

\* C3: a timeout of the byte read ends receive at once with failure: the
\* read is not retried, and the pass that timed out invokes no handler and
\* attempts no verification.
C3_TimeoutReturnsAtOnce ==
    /\ [](op = "recv" /\ timed_out => pc = "done" /\ result = FALSE)
    /\ [][(op = "recv" /\ ~timed_out /\ timed_out')
            => (reads' = reads + 1 /\ got' = got /\ oob_calls' = oob_calls
                /\ verifies' = verifies)]_vars

\* A receive that timed out in the middle of a candidate.
C3_Witness ==
    op = "recv" /\ pc = "done" /\ timed_out /\ Len(got) >= 2 /\ j > 0

IsLiteral(p) == \A k \in 1..Len(p) : p[k] # "%" /\ ~IsSpace(p[k])

Occurs(p, str) ==
    \E k \in 1..(Len(str) - Len(p) + 1) : SubSeq(str, k, k + Len(p) - 1) = p

\* p at the first byte of str or right after a '\n'.
OccursAtLineStart(p, str) ==
    \E k \in 1..(Len(str) - Len(p) + 1) :
        SubSeq(str, k, k + Len(p) - 1) = p /\ (k = 1 \/ str[k - 1] = LF)

LiteralReceiveDone ==
    op = "recv" /\ pc = "done" /\ IsLiteral(pattern) /\ _oobs = <<>>

\* C4 as claimed: with no OOB prefix registered, receive of a literal
\* pattern succeeds iff the pattern occurs somewhere in the bytes delivered
\* before the timeout, and otherwise fails by timeout.
C4_SucceedsIffOccurs ==
    LiteralReceiveDone =>
        /\ (result = TRUE) <=> Occurs(pattern, got)
        /\ (result = FALSE) => timed_out

\* C4 amended: ... succeeds iff the pattern occurs at the start of a
\* candidate: at the first byte delivered or right after a '\n' (for
\* streams shorter than the room the buffer leaves for a candidate).
C4_SucceedsIffOccursAtLineStart ==
    (LiteralReceiveDone /\ Len(got) + 1 < AT_BUFFER_SIZE - (Len(pattern) + 3)) =>
        /\ (result = TRUE) <=> OccursAtLineStart(pattern, got)
        /\ (result = FALSE) => timed_out

\* A literal receive that succeeded after a line of noise.
C4_Witness ==
    LiteralReceiveDone /\ result = TRUE /\ Len(got) > Len(pattern) + 1

CmdPattern == <<"C", "M", "D", "=", "%", "d">>

\* A receive of "CMD=%d" has returned, the peer having echoed the command
\* a send of "CMD=%d" wrote; the transport withheld no byte of the echo
\* that receive asked for.
EchoReceived ==
    /\ op = "recv" /\ pc = "done" /\ ncalls = 2
    /\ pattern = CmdPattern /\ command = CmdPattern
    /\ got # <<>>
    /\ timed_out => wire = <<>>

\* The send wrote "CMD=", the decimal text of its argument, the delimiter.
SentDecimal ==
    LET text == SentCommand
        digits == SubSeq(text, 5, Len(text))
    IN  /\ tx = text \o _output_delimiter
        /\ SubSeq(text, 1, 4) = <<"C", "M", "D", "=">>
        /\ digits # <<>>
        /\ \A k \in 1..Len(digits) : IsDigit(digits[k])
        /\ Atoi(digits) = send_arg

RECURSIVE LeadingDigit(_)
LeadingDigit(n) == IF n < 10 THEN n ELSE LeadingDigit(n \div 10)

\* C5 as claimed: send("CMD=%d", n) writes the decimal text of n and, the
\* transport echoing it, receive("CMD=%d", &v) succeeds with v = n.
C5_RoundTrip ==
    EchoReceived => (SentDecimal /\ result = TRUE /\ captured = <<send_arg>>)

\* C5 amended: ... receive("CMD=%d", &v) succeeds as soon as the first
\* digit has arrived, with v the leading decimal digit of n: v = n for the
\* one-digit n only.
C5_RoundTripLeadingDigit ==
    EchoReceived =>
        /\ SentDecimal
        /\ result = TRUE
        /\ captured = <<LeadingDigit(send_arg)>>
        /\ got = <<"C", "M", "D", "=", Itoa(send_arg)[1]>>

\* The round trip of 12 yields 1.
C5_Witness ==
    EchoReceived /\ send_arg = 12 /\ result = TRUE /\ captured = <<1>>

\* Commas of str not preceded by a backslash.
UnescapedCommas(str) ==
    Cardinality({k \in 1..Len(str) : str[k] = "," /\ (k = 1 \/ str[k - 1] # BSL)})

\* str split at its unescaped commas, each backslash-comma pair a comma.
RECURSIVE SplitFrom(_, _, _, _)
SplitFrom(str, k, cur, acc) ==
    IF k > Len(str) THEN Append(acc, cur)
    ELSE IF str[k] = "," /\ k > 1 /\ str[k - 1] = BSL
         THEN SplitFrom(str, k + 1, Append(SubSeq(cur, 1, Len(cur) - 1), ","), acc)
    ELSE IF str[k] = ","
         THEN SplitFrom(str, k + 1, <<>>, Append(acc, cur))
    ELSE SplitFrom(str, k + 1, Append(cur, str[k]), acc)

SplitArgs(str) == SplitFrom(str, 1, <<>>, <<>>)

\* C6 as claimed: given slots enough, the splitter returns one plus the
\* number of unescaped commas, and the arguments are the input split at
\* those commas with each backslash-comma pair turned into a comma.
C6_SplitsAtUnescapedCommas ==
    (analyse.pc = "done"
         /\ analyse.list_size >= 1 + UnescapedCommas(analyse.input)) =>
        /\ analyse.arg_num = 1 + UnescapedCommas(analyse.input)
        /\ AnalyseResult = SplitArgs(analyse.input)

\* C7 as claimed: every byte read passes the timeout the session was
\* constructed with, or the one set_timeout set last.
C7_ReadsPassConfiguredTimeout ==
    [][reads' = reads + 1 => get_timeout' = configured]_vars

\* C8: when the transport reports no data available, process_oob returns
\* false at once: no byte read, no handler, no sink, no store into the
\* buffer, no session field changed.
C8_IdlePollDoesNothing ==
    /\ [](op = "process_oob" /\ ~readable =>
            /\ pc = "done" /\ result = FALSE
            /\ reads = 0 /\ got = <<>> /\ oob_calls = 0 /\ sink_calls = 0
            /\ max_write = -1)
    /\ [][(op' = "process_oob" /\ ncalls' = ncalls + 1 /\ ~readable')
            => UNCHANGED <<sessionVars, envVars>>]_vars

\* A second call in a row found the line quiet, a handler and a sink
\* being registered and the buffer holding the text of an earlier call.
C8_Witness ==
    /\ op = "process_oob" /\ ~readable /\ pc = "done" /\ ncalls = 2
    /\ _oobs # <<>> /\ unprocessed_data
    /\ _buffer[0] # NUL

\* What a send is to write.
SendExpected == Format(command, send_arg) \o _output_delimiter

\* C9: send writes nothing before the drain has returned idle; then the
\* formatted command and the output delimiter, in that order, returning
\* success if every write succeeds; a failed write returns failure with
\* nothing written after it.
C9_SendWritesCommandThenDelimiter ==
    op = "send" =>
        /\ pc \in {"drain", "poll", "cb", "format"} => tx = <<>>
        /\ IsPrefix(tx, SendExpected)
        /\ (pc = "done" /\ ~put_failed) => (result = TRUE /\ tx = SendExpected)
        /\ put_failed => (pc = "done" /\ result = FALSE /\ tx # SendExpected)

\* A send that drained an OOB event and then wrote all of its bytes.
C9_Witness ==
    /\ op = "send" /\ pc = "done" /\ result = TRUE
    /\ oob_calls > 0
    /\ tx = SendExpected

\* C10 as claimed: when a handler called from receive signals abort,
\* receive returns failure as the handler returns.
C10_AbortFailsReceive ==
    [][(pc = "cb" /\ op = "recv" /\ abort_req')
         => (pc' = "done" /\ result' = FALSE)]_vars

\* The candidate length once the byte the step read (the last of got') and
\* the filler before it, if one is due, have been appended.
Appended ==
    j + 1 + (IF got'[Len(got')] = LF /\ _in_prev = ":" THEN 1 ELSE 0)

\* A pass of receive that read a byte and found neither an OOB prefix nor
\* a match.
PassWithoutMatch ==
    /\ op = "recv" /\ pc = "read" /\ pc' = "read"
    /\ Len(got') = Len(got) + 1

\* C11: a candidate that reaches the capacity without match or OOB prefix
\* is reset (length and filler count zero) and reading goes on, one that
\* has not is kept; a receive of a stream holding no match and no OOB
\* prefix ends, with failure, at the timeout that follows it.
C11_CapacityResetAndTermination ==
    /\ [][PassWithoutMatch =>
            IF Appended + 1 >= AT_BUFFER_SIZE - offset \/ got'[Len(got')] = LF
            THEN j' = 0 /\ dummy' = 0 /\ dummy_pos' = <<>>
            ELSE j' = Appended]_vars
    /\ [](op = "recv" /\ pc = "read" => j + 1 < AT_BUFFER_SIZE - offset)
    /\ [](op = "recv" /\ pc = "done" /\ lines_matched = 0 /\ pattern # <<>>
            => result = FALSE /\ timed_out)
    /\ (op = "recv" /\ pc # "done") ~> (pc = "done")

\* A receive that filled the candidate to capacity with one unbroken run
\* of bytes, went on reading and failed at the timeout.
C11_Witness ==
    /\ op = "recv" /\ pc = "done" /\ result = FALSE /\ timed_out
    /\ oob_calls = 0
    /\ \A k \in 1..Len(got) : got[k] # LF
    /\ Len(got) >= AT_BUFFER_SIZE - offset - 1
    /\ j = Len(got) - (AT_BUFFER_SIZE - offset - 1)
    /\ reads = Len(got) + 1

\* The candidate accumulated so far, and what a pass of receive makes of it
\* by appending the byte it read and the filler before it.
Candidate == [k \in 1..j |-> _buffer[offset + k - 1]]

NextCandidate ==
    Candidate \o (IF got'[Len(got')] = LF /\ _in_prev = ":" THEN <<"x">> ELSE <<>>)
              \o <<got'[Len(got')]>>

IsRegistered(str) == \E k \in 1..Len(_oobs) : _oobs[k].prefix = str

\* A pass of receive that read a byte.
PassWithByte == op = "recv" /\ pc = "read" /\ Len(got') = Len(got) + 1

RECURSIVE LinesFrom(_, _, _, _)
LinesFrom(str, k, cur, acc) ==
    IF k > Len(str) THEN acc
    ELSE IF str[k] = LF THEN LinesFrom(str, k + 1, <<>>, Append(acc, cur))
    ELSE LinesFrom(str, k + 1, Append(cur, str[k]), acc)

CompleteLines(str) == LinesFrom(str, 1, <<>>, <<>>)

LineTerminated(str) == str # <<>> /\ str[Len(str)] = LF

\* The lines of pattern p, each without its '\n'.
RECURSIVE PatternLines(_)
PatternLines(p) ==
    IF p = <<>> THEN <<>>
    ELSE LET n == FirstLineLen(p)
         IN  <<SubSeq(p, 1, IF p[n] = LF THEN n - 1 ELSE n)>>
                 \o PatternLines(SubSeq(p, n + 1, Len(p)))

\* Whether the received line rl matches the pattern line pl (both without
\* their '\n'): a literal line by equality, "A:%s" by "A:" and a run,
\* possibly empty, of non-blank bytes, "%[^\n]" by any bytes but none.
LineMatches(pl, rl) ==
    IF IsLiteral(pl) THEN rl = pl
    ELSE IF pl = <<"A", ":", "%", "s">>
         THEN /\ Len(rl) >= 2 /\ rl[1] = "A" /\ rl[2] = ":"
              /\ \A k \in 3..Len(rl) : ~IsSpace(rl[k])
    ELSE pl = <<"%", "[", "^", LF, "]">> /\ rl # <<>>

\* Pattern lines left to match after the received lines rls have gone by:
\* a line that does not match the current pattern line is noise.
RECURSIVE LinesLeft(_, _)
LinesLeft(pls, rls) ==
    IF pls = <<>> \/ rls = <<>> THEN pls
    ELSE IF LineMatches(Head(pls), Head(rls)) THEN LinesLeft(Tail(pls), Tail(rls))
    ELSE LinesLeft(pls, Tail(rls))

\* A receive of a pattern whose lines all end in '\n' has returned, no OOB
\* prefix being registered and no line outgrowing the candidate's room.
LinewiseReceiveDone ==
    /\ op = "recv" /\ pc = "done" /\ _oobs = <<>>
    /\ LineTerminated(pattern)
    /\ Len(got) + 2 < AT_BUFFER_SIZE - (Len(pattern) + 3)

FirstLine(p) == SubSeq(p, 1, FirstLineLen(p))

\* The line with every '%' that is neither of a "%%" pair nor the start of
\* "%*" turned into "%*".
RECURSIVE StarLone(_, _)
StarLone(line, k) ==
    IF k > Len(line) THEN <<>>
    ELSE IF line[k] = "%" /\ k < Len(line) /\ line[k + 1] = "%"
         THEN <<"%", "%">> \o StarLone(line, k + 2)
    ELSE IF line[k] = "%" /\ k < Len(line) /\ line[k + 1] = "*"
         THEN <<"%", "*">> \o StarLone(line, k + 2)
    ELSE IF line[k] = "%" THEN <<"%", "*">> \o StarLone(line, k + 1)
    ELSE <<line[k]>> \o StarLone(line, k + 1)

\* C14 as claimed: the template staged for a pattern line is the line with
\* every '%' that is not part of a "%%" pair and not the start of "%*"
\* rewritten to "%*", followed by "%n"; "%%" followed by any character is
\* copied through unchanged.
C14_TemplateKeepsPercentPairs ==
    staged.pc = "staged" =>
        CStr(_buffer, 0) = StarLone(FirstLine(staged.response), 1) \o <<"%", "n">>

\* A pass of receive in which the current line matched.
PassWithMatch == PassWithByte /\ lines_matched' = lines_matched + 1

\* C15 as claimed: on a line match the candidate text left for the
\* capturing pass, fillers removed, is the bytes received for that
\* candidate, in order, none added, doubled or lost.
C15_CapturedTextIsReceivedBytes ==
    [][PassWithMatch =>
         CStr(_buffer', offset) = Append(Candidate, got'[Len(got')])]_vars

\* C16 as claimed: when a handler has returned and receive restarts,
\* nothing of the attempt before it is left: the byte remembered for the
\* filler test is the initial one, whatever was received before (so the
\* first byte after the restart gets a filler or not on its own account),
\* and the line is staged with an empty candidate and no filler pending.
C16_RestartForgetsEarlierBytes ==
    /\ [][(op = "recv" /\ pc = "cb" /\ pc' = "line") => _in_prev' = NUL]_vars
    /\ [][(op = "recv" /\ pc = "line" /\ pc' = "read")
            => (j' = 0 /\ dummy' = 0 /\ dummy_pos' = <<>>)]_vars

\* C17: receive succeeds only when every line of the pattern has matched,
\* in pattern order.  The lines are those ended by a '\n' that is not the
\* '\n' of a [^\n scanset; each match moves the cursor past exactly the
\* line in progress, and nothing else moves it; each line is staged with an
\* empty candidate, which then holds the bytes read since and no others, so
\* that it begins after the bytes the match before it consumed; a literal
\* line matches the candidate equal to it.
C17_LinesMatchInOrder ==
    /\ [](op = "recv" =>
            /\ lines_matched + Len(PatternLines(response)) = Len(PatternLines(pattern))
            /\ (pc = "done" /\ result = TRUE) => response = <<>>
            /\ pc = "read" =>
                 /\ j <= Len(got)
                 /\ Candidate = SubSeq(got, Len(got) - j + 1, Len(got)))
    /\ [][PassWithMatch =>
            /\ response # <<>>
            /\ response' = DropLines(response, 1)
            /\ pc' = "line"
            /\ IsLiteral(Head(PatternLines(response)))
                 => Append(Candidate, got'[Len(got')]) = FirstLine(response)]_vars
    /\ [][(op = "recv" /\ op' = "recv" /\ ncalls' = ncalls
             /\ (lines_matched' # lines_matched \/ response' # response))
            => PassWithMatch]_vars
    /\ [][(op = "recv" /\ pc = "line" /\ pc' = "read") => j' = 0]_vars

\* A two-line receive that succeeded on line one, an empty line of noise,
\* line two.
C17_Witness ==
    /\ op = "recv" /\ pc = "done" /\ result = TRUE
    /\ pattern = TwoLines /\ lines_matched = 2
    /\ got = <<"A", LF, LF, "B", LF>>

\* C18 as claimed: the splitter writes arg_list slots of index below
\* list_size only, and returns a count of list_size at most.
C18_StaysWithinList ==
    analyse.pc # "none" =>
        /\ Len(analyse.arg_list) <= analyse.list_size
        /\ analyse.arg_num <= analyse.list_size

\* C19 as claimed: every read of the buffer that the delimiter check of
\* process_oob makes, called by the user or by the drain of send, starts at
\* an index of the buffer: i - _input_delim_size is never negative.
C19_DelimiterCheckReadsInBuffer ==
    op \in {"process_oob", "send"} => min_read >= 0

\* C20: in receive at most one filler position is recorded, well within
\* the 20 slots of dummy_pos: a filler is injected on a '\n' that follows
\* ':' only, and the pass that injects it ends in an OOB restart or a line
\* match, or resets the count to zero; every pass starts with none.
C20_AtMostOneFiller ==
    /\ [](/\ dummy \in {0, 1}
          /\ Len(dummy_pos) = dummy
          /\ (op = "recv" /\ pc = "read") => dummy = 0)
    /\ [][dummy' > dummy =>
            /\ PassWithByte
            /\ got'[Len(got')] = LF /\ _in_prev = ":"
            /\ pc' \in {"cb", "line"}]_vars

\* A line matched with its one filler: "A:\n" for "A:%s\n".
C20_Witness ==
    /\ op = "recv" /\ pc = "done" /\ result = TRUE
    /\ dummy = 1 /\ dummy_pos = <<2>>
    /\ got = <<"A", ":", LF>>

=============================================================================
